---- MODULE Spec2Model ----
(***************************************************************************)
(* Model of the example HTTP servers of custom_routing_in_go:              *)
(*   02_serve_mux.go      ServeMux with /hello/, /hello and /  ("mux02")   *)
(*   the Response wrapper ServeMux + Response.Text             ("mux03")   *)
(*   04_custom_handler.go App.ServeHTTP, fixed answer          ("app04")   *)
(*   the regex router     App / Route / Context                ("router")  *)
(* Strings are sequences of one-character strings, so that matching,       *)
(* replacing and formatting are computed character by character.           *)
(***************************************************************************)
EXTENDS Integers, Sequences, FiniteSets, TLC

VARIABLES server, phase, Routes, DefaultRoute, conc, pc, path, idx, ctx, invoked, resp

vars == <<server, phase, Routes, DefaultRoute, conc, pc, path, idx, ctx, invoked, resp>>

\* ------------------------------------------------------------------ bounds

\* A request path is the concatenation of at most MaxPieces pieces.
MaxPieces == 3
\* The same, for the specification with two concurrent dispatches.
MaxConcPieces == 2
\* main may register at most MaxRoutes routes before it starts serving.
MaxRoutes == 2

\* ------------------------------------------------------------- text values

Slash == "/"
NL == "\n"

sHello == <<"/", "h", "e", "l", "l", "o">>
sHelloSlash == <<"/", "h", "e", "l", "l", "o", "/">>
sRoot == <<"/">>
sHelloWorld == <<"H", "e", "l", "l", "o", " ", "w", "o", "r", "l", "d">>
sHelloSp == <<"H", "e", "l", "l", "o", " ">>
sNotFound == <<"N", "o", "t", " ", "f", "o", "u", "n", "d">>
sTextPlain == "text/plain"
sContentType == "Content-Type"

StatusOK == 200
StatusNotFound == 404

\* The pieces request paths are built from; a path starts with "/".
Pieces == {sHello, sHelloSlash, sRoot, <<"B">>, <<".">>, <<NL>>}

RECURSIVE PathsOf(_)
PathsOf(n) ==
    IF n = 0 THEN {}
    ELSE IF n = 1 THEN {p \in Pieces : p[1] = Slash}
    ELSE LET shorter == PathsOf(n - 1)
         IN  shorter \cup {p \o q : p \in shorter, q \in Pieces}

Paths == PathsOf(MaxPieces)
ConcPaths == PathsOf(MaxConcPieces)

\* ---------------------------------------------------------------- strings

HasAt(s, sub, i) ==
    /\ i >= 1
    /\ i + Len(sub) - 1 <= Len(s)
    /\ SubSeq(s, i, i + Len(sub) - 1) = sub

HasPrefix(s, pre) == HasAt(s, pre, 1)

\* strings.Index(s, sub), 1-based; 0 when sub does not occur in s.
Index(s, sub) ==
    LET hits == {i \in 1..(Len(s) + 1) : HasAt(s, sub, i)}
    IN  IF hits = {} THEN 0 ELSE CHOOSE i \in hits : \A j \in hits : i <= j

\* strings.Replace(s, old, "", 1): the first occurrence of old removed.
ReplaceFirst(s, old) ==
    LET i == Index(s, old)
    IN  IF i = 0 THEN s
        ELSE SubSeq(s, 1, i - 1) \o SubSeq(s, i + Len(old), Len(s))

\* fmt.Sprintf("%s\n", body)
SprintfLn(body) == body \o <<NL>>

\* fmt.Sprintf("Hello %s", name)
SprintfHello(name) == sHelloSp \o name

\* ------------------------------------------------------- regular expressions

\* \w of RE2: [0-9A-Za-z_]
WordChars ==
    {"0", "1", "2", "3", "4", "5", "6", "7", "8", "9",
     "A", "B", "C", "D", "E", "F", "G", "H", "I", "J", "K", "L", "M",
     "N", "O", "P", "Q", "R", "S", "T", "U", "V", "W", "X", "Y", "Z",
     "a", "b", "c", "d", "e", "f", "g", "h", "i", "j", "k", "l", "m",
     "n", "o", "p", "q", "r", "s", "t", "u", "v", "w", "x", "y", "z", "_"}

\* [\w\._-]
NameChars == WordChars \cup {".", "_", "-"}

\* Pattern source text, token by token.
Bol == [t |-> "bol", s |-> <<>>]
Eol == [t |-> "eol", s |-> <<>>]
Open == [t |-> "open", s |-> <<>>]
Close == [t |-> "close", s |-> <<>>]
Lit(str) == [t |-> "lit", s |-> str]
\* class+, the class written as in the pattern
Plus(class) == [t |-> "plus", s |-> class]
WordClass == <<"\\", "w">>
NameClass == <<"[", "\\", "w", "\\", ".", "_", "-", "]">>
ClassChars(class) == IF class = WordClass THEN WordChars ELSE NameChars

\* `^/hello$`
PatHello == <<Bol, Lit(sHello), Eol>>
\* `/hello/([\w\._-]+)$`
PatHelloName == <<Lit(sHelloSlash), Open, Plus(NameClass), Close, Eol>>
\* `^/(\w+)/([\w\._-]+)`
PatTwoGroups == <<Bol, Lit(sRoot), Open, Plus(WordClass), Close, Lit(sRoot), Open, Plus(NameClass), Close>>
\* `/hello/([\w\._-]+$`   (missing closing parenthesis)
PatUnclosed == <<Lit(sHelloSlash), Open, Plus(NameClass), Eol>>

Patterns == {PatHello, PatHelloName, PatTwoGroups, PatUnclosed}

\* The parser's parenthesis check: every ")" closes an open "(", none is left open.
RECURSIVE Balanced(_, _, _)
Balanced(pat, k, depth) ==
    IF k > Len(pat) THEN depth = 0
    ELSE IF pat[k].t = "open" THEN Balanced(pat, k + 1, depth + 1)
    ELSE IF pat[k].t = "close" THEN depth > 0 /\ Balanced(pat, k + 1, depth - 1)
    ELSE Balanced(pat, k + 1, depth)

\* Group numbers: the g-th "(" from the left opens group g; grp[k] is the group
\* token k opens or closes (0 for the other tokens).
RECURSIVE Number(_, _, _, _, _)
Number(pat, k, stack, next, grp) ==
    IF k > Len(pat) THEN grp
    ELSE IF pat[k].t = "open"
         THEN Number(pat, k + 1, <<next>> \o stack, next + 1, Append(grp, next))
    ELSE IF pat[k].t = "close"
         THEN Number(pat, k + 1, Tail(stack), next, Append(grp, Head(stack)))
    ELSE Number(pat, k + 1, stack, next, Append(grp, 0))

NumSubexp(pat) == Cardinality({k \in 1..Len(pat) : pat[k].t = "open"})

\* regexp.Compile: ok = FALSE is the syntax error.
Compile(pat) ==
    IF Balanced(pat, 1, 0)
    THEN [ok |-> TRUE, prog |-> pat, grp |-> Number(pat, 1, <<>>, 1, <<>>), n |-> NumSubexp(pat)]
    ELSE [ok |-> FALSE, prog |-> pat, grp |-> <<>>, n |-> 0]

\* "$" as in Perl: also before a final newline.
AtEndOrBeforeFinalNewline(s, pos) ==
    \/ pos = Len(s) + 1
    \/ pos = Len(s) /\ s[pos] = NL

\* "$" without the m flag: only at the end of the text.
AtEndOfText(s, pos) == pos = Len(s) + 1

NoMatch == [ok |-> FALSE, end |-> 0, b |-> <<>>, e |-> <<>>]

\* Length of the run of characters of class cls in s from position pos.
RECURSIVE Run(_, _, _)
Run(s, pos, cls) ==
    IF pos <= Len(s) /\ s[pos] \in cls THEN 1 + Run(s, pos + 1, cls) ELSE 0

\* Backtracking match of tokens k.. of re at position pos of s; b and e are the
\* groups' start and end positions so far. "+" is greedy: the longest run first.
RECURSIVE MatchHere(_, _, _, _, _, _)
RECURSIVE TryPlus(_, _, _, _, _, _, _)
MatchHere(re, k, s, pos, b, e) ==
    IF k > Len(re.prog) THEN [ok |-> TRUE, end |-> pos, b |-> b, e |-> e]
    ELSE LET tok == re.prog[k] IN
      CASE tok.t = "bol" ->
             IF pos = 1 THEN MatchHere(re, k + 1, s, pos, b, e) ELSE NoMatch
        [] tok.t = "eol" ->
             IF AtEndOfText(s, pos) THEN MatchHere(re, k + 1, s, pos, b, e) ELSE NoMatch
        [] tok.t = "lit" ->
             IF HasAt(s, tok.s, pos)
             THEN MatchHere(re, k + 1, s, pos + Len(tok.s), b, e)
             ELSE NoMatch
        [] tok.t = "open" ->
             MatchHere(re, k + 1, s, pos, [b EXCEPT ![re.grp[k]] = pos], e)
        [] tok.t = "close" ->
             MatchHere(re, k + 1, s, pos, b, [e EXCEPT ![re.grp[k]] = pos])
        [] tok.t = "plus" ->
             TryPlus(re, k, s, pos, b, e, Run(s, pos, ClassChars(tok.s)))

TryPlus(re, k, s, pos, b, e, n) ==
    IF n = 0 THEN NoMatch
    ELSE LET r == MatchHere(re, k + 1, s, pos + n, b, e)
         IN  IF r.ok THEN r ELSE TryPlus(re, k, s, pos, b, e, n - 1)

\* The leftmost match: the first start position at which the pattern matches.
RECURSIVE Search(_, _, _)
Search(re, s, start) ==
    IF start > Len(s) + 1 THEN [ok |-> FALSE, start |-> 0, end |-> 0, b |-> <<>>, e |-> <<>>]
    ELSE LET zero == [g \in 1..re.n |-> 0]
             r == MatchHere(re, 1, s, start, zero, zero)
         IN  IF r.ok THEN [ok |-> TRUE, start |-> start, end |-> r.end, b |-> r.b, e |-> r.e]
             ELSE Search(re, s, start + 1)

\* (*Regexp).FindStringSubmatch: <<>> (nil) when s has no match, else the whole
\* match followed by one element per capture group.
FindStringSubmatch(re, s) ==
    LET m == Search(re, s, 1)
    IN  IF ~m.ok THEN <<>>
        ELSE <<SubSeq(s, m.start, m.end - 1)>>
             \o [g \in 1..re.n |-> SubSeq(s, m.b[g], m.e[g] - 1)]

\* ------------------------------------------------------ http.ResponseWriter

\* What the program can observe of the transport's writer: the header map (its
\* Content-Type entry; "" is unset), whether the status line went out, the status
\* and Content-Type that went out with it, the body bytes, and the calls made.
EmptyWriter ==
    [header |-> "", wroteHeader |-> FALSE, status |-> 0, sent |-> "", location |-> <<>>,
     body |-> <<>>, ops |-> <<>>]

OpHeaderSet(key, val) == [op |-> "Header.Set", key |-> key, val |-> val, code |-> 0, data |-> <<>>]
OpWriteHeader(code) == [op |-> "WriteHeader", key |-> "", val |-> "", code |-> code, data |-> <<>>]
OpWrite(data) == [op |-> "Write", key |-> "", val |-> "", code |-> 0, data |-> data]

\* w.Header().Set(key, val)
HeaderSet(w, key, val) ==
    [w EXCEPT !.header = IF key = sContentType THEN val ELSE @,
              !.ops = Append(@, OpHeaderSet(key, val))]

\* The status line goes out once, with the headers as they are then.
Commit(w, code) ==
    IF w.wroteHeader THEN w
    ELSE [w EXCEPT !.wroteHeader = TRUE, !.status = code, !.sent = w.header]

\* w.WriteHeader(code)
WriteHeader(w, code) == [Commit(w, code) EXCEPT !.ops = Append(@, OpWriteHeader(code))]

\* io.WriteString(w, data): an implicit WriteHeader(200) when none was written.
Write(w, data) ==
    [Commit(w, StatusOK) EXCEPT !.body = @ \o data, !.ops = Append(@, OpWrite(data))]

\* (*Response).Text of the Response wrapper
ResponseText(w, code, body) ==
    Write(WriteHeader(HeaderSet(w, sContentType, sTextPlain), code), SprintfLn(body))

\* (*Context).Text swapped: status line first, header afterwards.
ContextTextStatusFirst(w, code, body) ==
    Write(HeaderSet(WriteHeader(w, code), sContentType, sTextPlain), SprintfLn(body))

\* (*Context).Text
ContextText(w, code, body) ==
    Write(WriteHeader(HeaderSet(w, sContentType, sTextPlain), code), SprintfLn(body))

\* ------------------------------------------------------ the regex router

Workers == {1, 2}

HandlerKinds == {"HelloWorld", "HelloName"}

Returned(w) == [panic |-> FALSE, w |-> w]
Panicked(w) == [panic |-> TRUE, w |-> w]

\* NewApp's DefaultRoute answering 200.
NotFoundHandlerOK(params, w) == Returned(ContextText(w, StatusOK, sNotFound))

\* func(ctx *Context) { ctx.Text(http.StatusNotFound, "Not found") }
NotFoundHandler(params, w) == Returned(ContextText(w, StatusNotFound, sNotFound))

\* func(ctx *Context) { ctx.Text(http.StatusOK, "Hello world") }
HelloWorldHandler(params, w) == Returned(ContextText(w, StatusOK, sHelloWorld))

\* func(ctx *Context) { ctx.Text(http.StatusOK, fmt.Sprintf("Hello %s", ctx.Params[0])) }
\* ctx.Params[0] of an empty Params is an index-out-of-range panic.
HelloNameHandler(params, w) ==
    IF Len(params) = 0 THEN Panicked(w)
    ELSE Returned(ContextText(w, StatusOK, SprintfHello(params[1])))

\* Calling a Handler value.
CallOf(h, params, w) ==
    CASE h = "HelloWorld" -> HelloWorldHandler(params, w)
      [] h = "HelloName" -> HelloNameHandler(params, w)
      [] h = "NotFound" -> NotFoundHandler(params, w)

\* The two routes main registers.
MainRoutes ==
    <<[Pattern |-> Compile(PatHello), Handler |-> "HelloWorld"],
      [Pattern |-> Compile(PatHelloName), Handler |-> "HelloName"]>>

\* regexp.MustCompile that lets a syntax error through.
CompileUnchecked(pat) ==
    [ok |-> TRUE, prog |-> pat, grp |-> [k \in 1..Len(pat) |-> IF pat[k].t \in {"open", "close"} THEN 1 ELSE 0],
     n |-> NumSubexp(pat)]

\* regexp.MustCompile(pattern): panics when ok is FALSE.
MustCompile(pat) == Compile(pat)

\* One Context shared by all requests.
SharedContext(w) == 1

\* ctx := &Context{...}: every call of ServeHTTP allocates its own Context.
NewContext(w) == w

\* range a.Routes backwards.
RangeBackwards(n, k) == n + 1 - k

\* for _, rt := range a.Routes: the k-th iteration visits route k of n.
RangeOrder(n, k) == k

\* matches[0:]
WholeSlice(matches) == matches

\* matches[1:]
Submatches(matches) == Tail(matches)

\* break instead of return: the code after the loop runs as well.
BreakAfterHandler == "default"

\* return after rt.Handler(ctx)
AfterHandler == "done"

EmptyContext == [Params |-> <<>>]

\* ------------------------------------------------------------ http.ServeMux

\* The segments of a rooted path: the text between its slashes.
RECURSIVE SplitFrom(_, _, _, _)
SplitFrom(s, k, cur, out) ==
    IF k > Len(s) THEN Append(out, cur)
    ELSE IF s[k] = Slash THEN SplitFrom(s, k + 1, <<>>, Append(out, cur))
    ELSE SplitFrom(s, k + 1, Append(cur, s[k]), out)

\* path.Clean on the segments of a rooted path: empty and "." segments are
\* dropped, ".." drops the segment before it (and itself at the root).
RECURSIVE Resolve(_, _, _)
Resolve(segs, k, stack) ==
    IF k > Len(segs) THEN stack
    ELSE IF segs[k] = <<>> \/ segs[k] = <<".">> THEN Resolve(segs, k + 1, stack)
    ELSE IF segs[k] = <<".", ".">>
         THEN Resolve(segs, k + 1, IF stack = <<>> THEN stack ELSE SubSeq(stack, 1, Len(stack) - 1))
    ELSE Resolve(segs, k + 1, Append(stack, segs[k]))

RECURSIVE JoinFrom(_, _)
JoinFrom(stack, k) ==
    IF k > Len(stack) THEN <<>> ELSE <<Slash>> \o stack[k] \o JoinFrom(stack, k + 1)

\* path.Clean(p) for p starting with "/"
Clean(p) ==
    LET stack == Resolve(Tail(SplitFrom(p, 1, <<>>, <<>>)), 1, <<>>)
    IN  IF stack = <<>> THEN sRoot ELSE JoinFrom(stack, 1)

\* net/http cleanPath: the canonical path, the trailing slash kept.
cleanPath(p) ==
    IF p = <<>> THEN sRoot
    ELSE LET q == IF p[1] # Slash THEN sRoot \o p ELSE p
             np == Clean(q)
         IN  IF q[Len(q)] = Slash /\ np # sRoot
             THEN IF Len(q) = Len(np) + 1 /\ HasPrefix(q, np) THEN q ELSE np \o sRoot
             ELSE np

\* handler.HandleFunc("/hello/", ...), ("/hello", ...), ("/", ...)
MuxPatterns ==
    <<[pattern |-> sHelloSlash, handler |-> "helloName"],
      [pattern |-> sHello, handler |-> "helloWorld"],
      [pattern |-> sRoot, handler |-> "notFound"]>>

\* A pattern ending in "/" names a subtree, any other pattern one path.
MuxPatternMatches(pattern, p) ==
    IF pattern[Len(pattern)] = Slash THEN HasPrefix(p, pattern) ELSE p = pattern

\* (*ServeMux).match: the longest pattern that matches wins; 0 when none does.
MuxMatch(p) ==
    LET hits == {i \in 1..Len(MuxPatterns) : MuxPatternMatches(MuxPatterns[i].pattern, p)}
    IN  IF hits = {} THEN 0
        ELSE CHOOSE i \in hits :
               \A j \in hits : Len(MuxPatterns[j].pattern) <= Len(MuxPatterns[i].pattern)

MuxHasExact(p) == \E i \in 1..Len(MuxPatterns) : MuxPatterns[i].pattern = p

\* (*ServeMux).Handler: a path that is not canonical, or that names a registered
\* subtree without its trailing slash, is answered by a redirect.
MuxRoute(p) ==
    LET cp == cleanPath(p)
    IN  IF ~MuxHasExact(cp) /\ MuxHasExact(cp \o sRoot)
        THEN [redirect |-> TRUE, to |-> cp \o sRoot, handler |-> "redirect"]
        ELSE IF cp # p THEN [redirect |-> TRUE, to |-> cp, handler |-> "redirect"]
        ELSE LET i == MuxMatch(p)
             IN  [redirect |-> FALSE, to |-> <<>>,
                  handler |-> IF i = 0 THEN "mux404" ELSE MuxPatterns[i].handler]

\* http.RedirectHandler(url, StatusMovedPermanently): the Location header and the
\* status; its HTML body is left out.
Redirect(w, to) ==
    [w EXCEPT !.wroteHeader = TRUE, !.status = 301, !.header = "text/html; charset=utf-8",
              !.sent = "text/html; charset=utf-8", !.location = to]

\* http.NotFound of the library
MuxNotFound(w) ==
    [w EXCEPT !.wroteHeader = TRUE, !.status = StatusNotFound,
              !.header = "text/plain; charset=utf-8", !.sent = "text/plain; charset=utf-8"]

\* strings.Replace(r.URL.Path, "/hello/", "", 2)
NameOfReplaceTwo(p) == ReplaceFirst(ReplaceFirst(p, sHelloSlash), sHelloSlash)

\* name := strings.Replace(r.URL.Path, "/hello/", "", 1)
NameOf(p) == ReplaceFirst(p, sHelloSlash)

\* The three handlers of 02_serve_mux.go, writing to w directly.
Mux02Handler(h, p, w) ==
    LET started == WriteHeader(HeaderSet(w, sContentType, sTextPlain),
                               IF h = "notFound" THEN StatusNotFound ELSE StatusOK)
    IN  CASE h = "helloName" -> Write(started, SprintfHello(NameOf(p)) \o <<NL>>)
          [] h = "helloWorld" -> Write(started, sHelloWorld \o <<NL>>)
          [] h = "notFound" -> Write(started, sNotFound \o <<NL>>)

\* The three handlers of the Response wrapper's main.
Mux03Handler(h, p, w) ==
    CASE h = "helloName" -> ResponseText(w, StatusOK, SprintfHello(NameOf(p)))
      [] h = "helloWorld" -> ResponseText(w, StatusOK, sHelloWorld)
      [] h = "notFound" -> ResponseText(w, StatusNotFound, sNotFound)

\* (*ServeMux).ServeHTTP
MuxServeHTTP(srv, p, w) ==
    LET r == MuxRoute(p)
    IN  IF r.redirect THEN Redirect(w, r.to)
        ELSE IF r.handler = "mux404" THEN MuxNotFound(w)
        ELSE IF srv = "mux02" THEN Mux02Handler(r.handler, p, w)
        ELSE Mux03Handler(r.handler, p, w)

\* (*App).ServeHTTP of 04_custom_handler.go
App04ServeHTTP(w) ==
    Write(WriteHeader(HeaderSet(w, sContentType, sTextPlain), StatusOK), sHelloWorld \o <<NL>>)

\* ------------------------------------------------------------ the programs

\* The paths a request may carry.
RequestPaths == IF conc = 1 THEN Paths ELSE ConcPaths

Idle ==
    /\ pc = [w \in Workers |-> "idle"]
    /\ path = [w \in Workers |-> <<>>]
    /\ idx = [w \in Workers |-> 0]
    /\ ctx = [a \in Workers |-> EmptyContext]
    /\ invoked = [w \in Workers |-> <<>>]
    /\ resp = [w \in Workers |-> EmptyWriter]

\* Each program at the start of main; the router after app := NewApp().
Init ==
    /\ server \in {"router", "mux02", "mux03", "app04"}
    /\ phase = "setup"
    /\ Routes = <<>>
    /\ DefaultRoute = "NotFound"
    /\ conc = 1
    /\ Idle

\* The router's main at http.ListenAndServe, two requests served at a time.
InitConc ==
    /\ server = "router"
    /\ phase = "serving"
    /\ Routes = MainRoutes
    /\ DefaultRoute = "NotFound"
    /\ conc = 2
    /\ Idle

\* (*App).Handle(pattern, handler); MustCompile's panic ends main.
Handle ==
    /\ server = "router"
    /\ phase = "setup"
    /\ Len(Routes) < MaxRoutes
    /\ \E pat \in Patterns, h \in HandlerKinds :
         LET re == MustCompile(pat)
         IN  IF re.ok
             THEN /\ Routes' = Append(Routes, [Pattern |-> re, Handler |-> h])
                  /\ phase' = phase
             ELSE /\ Routes' = Routes
                  /\ phase' = "panicked"
    /\ UNCHANGED <<server, DefaultRoute, conc, pc, path, idx, ctx, invoked, resp>>

\* http.ListenAndServe binds the port and serves.
ListenAndServe ==
    /\ phase = "setup"
    /\ phase' = "serving"
    /\ UNCHANGED <<server, Routes, DefaultRoute, conc, pc, path, idx, ctx, invoked, resp>>

\* http.ListenAndServe returns an error: log.Fatalf ends the process.
ListenFails ==
    /\ phase = "setup"
    /\ phase' = "fatal"
    /\ UNCHANGED <<server, Routes, DefaultRoute, conc, pc, path, idx, ctx, invoked, resp>>

\* The ServeMux programs answer a request for path p.
MuxRequest(w) ==
    /\ server \in {"mux02", "mux03"}
    /\ phase = "serving"
    /\ w <= conc
    /\ pc[w] = "idle"
    /\ \E p \in RequestPaths :
         /\ path' = [path EXCEPT ![w] = p]
         /\ resp' = [resp EXCEPT ![w] = MuxServeHTTP(server, p, EmptyWriter)]
    /\ pc' = [pc EXCEPT ![w] = "done"]
    /\ UNCHANGED <<server, phase, Routes, DefaultRoute, conc, idx, ctx, invoked>>

\* 04_custom_handler.go answers a request for path p.
App04Request(w) ==
    /\ server = "app04"
    /\ phase = "serving"
    /\ w <= conc
    /\ pc[w] = "idle"
    /\ \E p \in RequestPaths : path' = [path EXCEPT ![w] = p]
    /\ resp' = [resp EXCEPT ![w] = App04ServeHTTP(EmptyWriter)]
    /\ pc' = [pc EXCEPT ![w] = "done"]
    /\ UNCHANGED <<server, phase, Routes, DefaultRoute, conc, idx, ctx, invoked>>

\* (*App).ServeHTTP of the router is entered for path p: the Context is made.
RouterAccept(w) ==
    /\ server = "router"
    /\ phase = "serving"
    /\ w <= conc
    /\ pc[w] = "idle"
    /\ \E p \in RequestPaths : path' = [path EXCEPT ![w] = p]
    /\ ctx' = [ctx EXCEPT ![NewContext(w)] = EmptyContext]
    /\ idx' = [idx EXCEPT ![w] = 1]
    /\ pc' = [pc EXCEPT ![w] = "range"]
    /\ UNCHANGED <<server, phase, Routes, DefaultRoute, conc, invoked, resp>>

\* One iteration of the loop over a.Routes, or its end.
RangeStep(w) ==
    /\ pc[w] = "range"
    /\ LET n == Len(Routes)
       IN  IF idx[w] > n
           THEN /\ pc' = [pc EXCEPT ![w] = "default"]
                /\ UNCHANGED <<idx, ctx>>
           ELSE LET rt == Routes[RangeOrder(n, idx[w])]
                    matches == FindStringSubmatch(rt.Pattern, path[w])
                IN  IF Len(matches) > 0
                    THEN /\ ctx' = IF Len(matches) > 1
                                   THEN [ctx EXCEPT ![NewContext(w)].Params = Submatches(matches)]
                                   ELSE ctx
                         /\ pc' = [pc EXCEPT ![w] = "call"]
                         /\ UNCHANGED idx
                    ELSE /\ idx' = [idx EXCEPT ![w] = @ + 1]
                         /\ UNCHANGED <<pc, ctx>>
    /\ UNCHANGED <<server, phase, Routes, DefaultRoute, conc, path, invoked, resp>>

\* rt.Handler(ctx); return
CallHandler(w) ==
    /\ pc[w] = "call"
    /\ LET i == RangeOrder(Len(Routes), idx[w])
           params == ctx[NewContext(w)].Params
           r == CallOf(Routes[i].Handler, params, resp[w])
       IN  /\ invoked' = [invoked EXCEPT ![w] = Append(@, [route |-> i, params |-> params])]
           /\ resp' = [resp EXCEPT ![w] = r.w]
           /\ pc' = [pc EXCEPT ![w] = IF r.panic THEN "panic" ELSE AfterHandler]
    /\ UNCHANGED <<server, phase, Routes, DefaultRoute, conc, path, idx, ctx>>

\* a.DefaultRoute(ctx)
CallDefault(w) ==
    /\ pc[w] = "default"
    /\ LET params == ctx[NewContext(w)].Params
           r == CallOf(DefaultRoute, params, resp[w])
       IN  /\ invoked' = [invoked EXCEPT ![w] = Append(@, [route |-> 0, params |-> params])]
           /\ resp' = [resp EXCEPT ![w] = r.w]
           /\ pc' = [pc EXCEPT ![w] = IF r.panic THEN "panic" ELSE "done"]
    /\ UNCHANGED <<server, phase, Routes, DefaultRoute, conc, path, idx, ctx>>

\* ServeHTTP has returned (or its panic was recovered by the server): the
\* response is complete and the request's values are dropped.
Finish(w) ==
    /\ pc[w] \in {"done", "panic"}
    /\ pc' = [pc EXCEPT ![w] = "idle"]
    /\ path' = [path EXCEPT ![w] = <<>>]
    /\ idx' = [idx EXCEPT ![w] = 0]
    /\ ctx' = [ctx EXCEPT ![NewContext(w)] = EmptyContext]
    /\ invoked' = [invoked EXCEPT ![w] = <<>>]
    /\ resp' = [resp EXCEPT ![w] = EmptyWriter]
    /\ UNCHANGED <<server, phase, Routes, DefaultRoute, conc>>

Next ==
    \/ Handle
    \/ ListenAndServe
    \/ ListenFails
    \/ \E w \in Workers : MuxRequest(w)
    \/ \E w \in Workers : App04Request(w)
    \/ \E w \in Workers : RouterAccept(w)
    \/ \E w \in Workers : RangeStep(w)
    \/ \E w \in Workers : CallHandler(w)
    \/ \E w \in Workers : CallDefault(w)
    \/ \E w \in Workers : Finish(w)

Spec == Init /\ [][Next]_vars

NextConc ==
    \/ \E w \in Workers : RouterAccept(w)
    \/ \E w \in Workers : RangeStep(w)
    \/ \E w \in Workers : CallHandler(w)
    \/ \E w \in Workers : CallDefault(w)
    \/ \E w \in Workers : Finish(w)

SpecConc == InitConc /\ [][NextConc]_vars

\* ------------------------------------------------------------------ claims

\* ServeHTTP of worker w has returned, or panicked in a handler.
Settled(w) == pc[w] \in {"done", "panic"}

RouteMatches(i, p) == Search(Routes[i].Pattern, p, 1).ok

\* The lowest-indexed route whose pattern matches p; 0 when none matches.
FirstMatch(p) ==
    LET hits == {i \in 1..Len(Routes) : RouteMatches(i, p)}
    IN  IF hits = {} THEN 0 ELSE CHOOSE i \in hits : \A j \in hits : i <= j

\* The body ends with exactly one newline.
OneFinalNewline(body) ==
    /\ Len(body) >= 1
    /\ body[Len(body)] = NL
    /\ Len(body) >= 2 => body[Len(body) - 1] # NL

Answered(w, code, body) ==
    /\ resp[w].wroteHeader
    /\ resp[w].status = code
    /\ resp[w].sent = sTextPlain
    /\ resp[w].body = body

\* C1: in the regex router the lowest-indexed route whose pattern matches the
\* path is the one whose handler is invoked, and no other route's handler nor
\* the default handler is, also when later routes match the path as well.
C1_FirstMatchWins ==
    \A w \in Workers :
        (server = "router" /\ (Settled(w) \/ invoked[w] # <<>>)) =>
            \A first \in {FirstMatch(path[w])} :
                first # 0 =>
                    /\ invoked[w] # <<>>
                    /\ \A k \in 1..Len(invoked[w]) : invoked[w][k].route = first

C1_Witness ==
    \E w \in Workers :
        /\ server = "router"
        /\ pc[w] = "done"
        /\ Len(Routes) = 2
        /\ RouteMatches(1, path[w])
        /\ RouteMatches(2, path[w])
        /\ Routes[1].Handler # Routes[2].Handler
        /\ invoked[w] # <<>>
        /\ invoked[w][1].route = 1

\* C2: a path that matches no registered pattern (also with no route registered)
\* has the default handler invoked with an empty capture sequence, and NewApp's
\* default handler answers 404 "Not found\n".
C2_NoMatchDefault ==
    \A w \in Workers :
        (server = "router" /\ Settled(w) /\ FirstMatch(path[w]) = 0) =>
            /\ pc[w] = "done"
            /\ Len(invoked[w]) >= 1
            /\ invoked[w][1] = [route |-> 0, params |-> <<>>]
            /\ Answered(w, StatusNotFound, sNotFound \o <<NL>>)

C2_Witness ==
    \E w \in Workers :
        /\ server = "router"
        /\ pc[w] = "done"
        /\ Len(Routes) >= 1
        /\ FirstMatch(path[w]) = 0
        /\ invoked[w] = <<[route |-> 0, params |-> <<>>]>>
        /\ resp[w].status = StatusNotFound

\* C3: every dispatch of the regex router invokes exactly one handler before it
\* returns, never none and never two: the first matching route's handler, or
\* the default handler when no route matches, and never both.
C3_ExactlyOneHandler ==
    \A w \in Workers :
        server = "router" =>
            /\ Len(invoked[w]) <= 1
            /\ Settled(w) =>
                 /\ Len(invoked[w]) = 1
                 /\ invoked[w][1].route = FirstMatch(path[w])

C3_Witness ==
    \E w \in Workers :
        /\ server = "router"
        /\ pc[w] = "done"
        /\ Len(invoked[w]) = 1
        /\ invoked[w][1].route = 2
        /\ Len(resp[w].ops) = 3

\* The text of group g of pattern re in its leftmost match in p.
GroupText(re, p, g) ==
    LET m == Search(re, p, 1) IN SubSeq(p, m.b[g], m.e[g] - 1)

\* C4: the capture sequence a matched route's handler is given holds exactly
\* the substrings matched by the pattern's capture groups, in the order of the
\* groups and without the whole match: as many elements as the pattern has
\* groups, none for a pattern without groups.
C4_CapturesAreGroups ==
    \A w \in Workers :
        (server = "router" /\ invoked[w] # <<>> /\ invoked[w][1].route # 0) =>
            LET re == Routes[invoked[w][1].route].Pattern
                params == invoked[w][1].params
            IN  /\ Len(params) = Cardinality({k \in 1..Len(re.prog) : re.prog[k].t = "open"})
                /\ \A g \in 1..Len(params) :
                     /\ params[g] = GroupText(re, path[w], g)
                     /\ Index(path[w], params[g]) # 0

C4_Witness ==
    \E w \in Workers :
        /\ server = "router"
        /\ pc[w] = "done"
        /\ invoked[w] # <<>>
        /\ invoked[w][1].route # 0
        /\ invoked[w][1].params = <<<<"h", "e", "l", "l", "o">>, <<"B", ".">>>>

\* The status code and body the handler answering worker w's request passes to
\* the text-response helper.
TextArguments(w) ==
    IF server = "router"
    THEN LET h == IF invoked[w][1].route = 0 THEN DefaultRoute
                  ELSE Routes[invoked[w][1].route].Handler
         IN  CASE h = "HelloWorld" -> [code |-> StatusOK, body |-> sHelloWorld]
               [] h = "HelloName" ->
                    [code |-> StatusOK, body |-> sHelloSp \o invoked[w][1].params[1]]
               [] h = "NotFound" -> [code |-> StatusNotFound, body |-> sNotFound]
    ELSE LET h == MuxRoute(path[w]).handler
         IN  CASE h = "helloWorld" -> [code |-> StatusOK, body |-> sHelloWorld]
               [] h = "helloName" ->
                    [code |-> StatusOK, body |-> sHelloSp \o SubSeq(path[w], 8, Len(path[w]))]
               [] h = "notFound" -> [code |-> StatusNotFound, body |-> sNotFound]

\* C5: the text-response helper called with code c and body b makes exactly
\* three calls on the writer, in this order: Content-Type set to text/plain,
\* the status line with c, the body b followed by one newline.
C5_TextOrder ==
    \A w \in Workers :
        (/\ pc[w] = "done"
         /\ server \in {"router", "mux03"}
         /\ server = "mux03" => ~MuxRoute(path[w]).redirect) =>
            LET a == TextArguments(w)
            IN  resp[w].ops = <<OpHeaderSet(sContentType, sTextPlain),
                                OpWriteHeader(a.code),
                                OpWrite(a.body \o <<NL>>)>>

C5_Witness ==
    \E w \in Workers :
        /\ server = "router"
        /\ pc[w] = "done"
        /\ invoked[w][1].route # 0
        /\ Routes[invoked[w][1].route].Handler = "HelloName"
        /\ Len(resp[w].ops) = 3
        /\ resp[w].ops[3].data = sHelloSp \o <<"B", NL>>

\* The response of worker w was written by one of the program's handlers.
ByHandler(w) ==
    /\ pc[w] = "done"
    /\ server \in {"mux02", "mux03"} => ~MuxRoute(path[w]).redirect

\* C6: every response the programs' handlers produce carries Content-Type
\* text/plain, a numeric status and a body that ends with exactly one newline.
C6_WireContract ==
    \A w \in Workers :
        ByHandler(w) =>
            /\ resp[w].sent = sTextPlain
            /\ resp[w].status \in 100..599
            /\ OneFinalNewline(resp[w].body)

\* A path in canonical form: "/", or segments none of which is empty, "." or
\* "..", but for an empty last one (a trailing slash).
Canonical(p) ==
    /\ p # <<>>
    /\ p[1] = Slash
    /\ LET segs == Tail(SplitFrom(p, 1, <<>>, <<>>))
       IN  \A k \in 1..Len(segs) :
             /\ segs[k] \notin {<<".">>, <<".", ".">>}
             /\ segs[k] = <<>> => k = Len(segs)

\* What C7 says of the request of worker w.
PrefixAnswer(w) ==
    LET p == path[w]
    IN  IF HasPrefix(p, sHelloSlash)
        THEN Answered(w, StatusOK, sHelloSp \o SubSeq(p, 8, Len(p)) \o <<NL>>)
        ELSE IF p = sHello THEN Answered(w, StatusOK, sHelloWorld \o <<NL>>)
        ELSE Answered(w, StatusNotFound, sNotFound \o <<NL>>)

\* C7 as stated: the ServeMux programs answer every path that begins with
\* /hello/ with 200 and "Hello " + the rest of the path + "\n", /hello with 200
\* "Hello world\n" and every other path with 404 "Not found\n".
C7_EveryPath ==
    \A w \in Workers :
        (server \in {"mux02", "mux03"} /\ pc[w] = "done") => PrefixAnswer(w)

\* C7 amended: that holds of every path in canonical form (in particular of
\* /hello/, answered "Hello \n"); any other path is answered by the ServeMux
\* itself, with a 301 redirect to the canonical path, and no handler runs.
C7_CanonicalPaths ==
    \A w \in Workers :
        (server \in {"mux02", "mux03"} /\ pc[w] = "done") =>
            IF Canonical(path[w]) THEN PrefixAnswer(w)
            ELSE /\ resp[w].status = 301
                 /\ resp[w].location # path[w]
                 /\ Canonical(resp[w].location)
                 /\ resp[w].body = <<>>
                 /\ resp[w].ops = <<>>

C7_Witness ==
    \E w \in Workers :
        /\ server = "mux02"
        /\ pc[w] = "done"
        /\ path[w] = sHelloSlash
        /\ resp[w].status = StatusOK
        /\ resp[w].body = sHelloSp \o <<NL>>

\* What a request for path p gets when it is dispatched alone.
Alone(p) ==
    LET i == FirstMatch(p)
        params == IF i = 0 THEN <<>> ELSE Tail(FindStringSubmatch(Routes[i].Pattern, p))
        r == CallOf(IF i = 0 THEN DefaultRoute ELSE Routes[i].Handler, params, EmptyWriter)
    IN  [pc |-> IF r.panic THEN "panic" ELSE "done",
         invoked |-> <<[route |-> i, params |-> params]>>,
         resp |-> r.w]

\* C8: dispatch leaves the route list and the default handler as they are, and
\* under any interleaving of two dispatches each request gets the handler, the
\* captures and the response it gets when dispatched alone; two requests for
\* the same path get the same response.
C8_SameAsAlone ==
    /\ Routes = MainRoutes
    /\ DefaultRoute = "NotFound"
    /\ \A w \in Workers :
         Settled(w) =>
            [pc |-> pc[w], invoked |-> invoked[w], resp |-> resp[w]] = Alone(path[w])
    /\ \A v, w \in Workers :
         (Settled(v) /\ Settled(w) /\ path[v] = path[w]) => resp[v] = resp[w]

C8_Witness ==
    /\ pc[1] = "done"
    /\ pc[2] = "done"
    /\ invoked[1][1].params = <<<<"B">>>>
    /\ invoked[2][1].params = <<<<".">>>>
    /\ resp[1].body # resp[2].body

\* C9: a Handle call with an invalid pattern fails in Handle, adds no route and
\* ends main, so that nothing is served afterwards; a Handle call that succeeds
\* appends exactly one route and leaves the routes before it as they were.
C9_Registration ==
    [][/\ phase' = "panicked" => (phase = "setup" /\ Routes' = Routes)
       /\ phase = "panicked" => UNCHANGED vars
       /\ phase' = "panicked" => \A w \in Workers : pc'[w] = "idle"
       /\ Routes' # Routes =>
            /\ phase = "setup" /\ phase' = "setup"
            /\ Len(Routes') = Len(Routes) + 1
            /\ SubSeq(Routes', 1, Len(Routes)) = Routes
       /\ \A i \in 1..Len(Routes') : Balanced(Routes'[i].Pattern.prog, 1, 0)]_vars

C9_Witness ==
    /\ phase = "panicked"
    /\ Len(Routes) = 1
    /\ \A w \in Workers : pc[w] = "idle"

\* The path ends in "/hello/<name>", <name> a non-empty run of [\w\._-].
EndsInHelloName(p) ==
    \E k \in 1..Len(p) :
        /\ HasAt(p, sHelloSlash, k)
        /\ k + 7 <= Len(p)
        /\ \A j \in (k + 7)..Len(p) : p[j] \in NameChars

\* The text after the last "/" of p.
AfterLastSlash(p) ==
    LET k == CHOOSE i \in 1..Len(p) : p[i] = Slash /\ \A j \in (i + 1)..Len(p) : p[j] # Slash
    IN  SubSeq(p, k + 1, Len(p))

\* C10: with main's two routes a path is answered 200 "Hello <name>\n" by the
\* second route exactly when it ends in "/hello/<name>", whatever precedes; the
\* handler's read of Params[0] never fails; /hello/ is answered 404.
C10_MainRoutes ==
    \A w \in Workers :
        (server = "router" /\ Routes = MainRoutes /\ Settled(w)) =>
            LET p == path[w]
            IN  /\ pc[w] = "done"
                /\ Len(invoked[w]) = 1
                /\ IF EndsInHelloName(p)
                   THEN /\ invoked[w][1] = [route |-> 2, params |-> <<AfterLastSlash(p)>>]
                        /\ Answered(w, StatusOK, sHelloSp \o AfterLastSlash(p) \o <<NL>>)
                   ELSE invoked[w][1].route # 2
                /\ p = sHelloSlash => Answered(w, StatusNotFound, sNotFound \o <<NL>>)

C10_Witness ==
    \E w \in Workers :
        /\ server = "router"
        /\ Routes = MainRoutes
        /\ pc[w] = "done"
        /\ path[w] = sHello \o sHelloSlash \o <<"B">>
        /\ resp[w].body = sHelloSp \o <<"B", NL>>

====
